---- MODULE Spec2Model ----
(***************************************************************************)
(* Model of src/evb/channel_data.rs: the field catalogue                   *)
(* (ChannelDataField), the schema selection (get_filtered_field_vec) and   *)
(* the row builder (ChannelData::new, push_defaults, set_value,            *)
(* append_event).                                                          *)
(*                                                                         *)
(* f64 values are modelled as exact rationals [tag, num, den]; the values  *)
(* of atan and of expressions in PI are kept symbolic in the tag.  The     *)
(* sentinel INVALID_VALUE is an ordinary value of that domain, as in the   *)
(* code, so that `x != INVALID_VALUE` is a comparison of values.           *)
(***************************************************************************)
EXTENDS Integers, Sequences, FiniteSets, TLC

VARIABLES channel_map, fields, rows, event, weights, pc, series

vars == <<channel_map, fields, rows, event, weights, pc, series>>

(***************************************************************************)
(* Bounds of the model.                                                    *)
(***************************************************************************)
MaxRows == 2

MaxHits == 2

MaxPresent == 4

MaxAbsent == 2

(***************************************************************************)
(* f64 arithmetic on exact rationals.                                      *)
(***************************************************************************)
Abs(n) == IF n < 0 THEN -n ELSE n

RECURSIVE GCD(_, _)
GCD(a, b) == IF b = 0 THEN a ELSE GCD(b, a % b)

Rat(n, d) ==
    LET g == GCD(Abs(n), Abs(d))
        s == IF d < 0 THEN -1 ELSE 1
    IN  [tag |-> "num", num |-> (s * n) \div g, den |-> (s * d) \div g]

F64(n) == [tag |-> "num", num |-> n, den |-> 1]

FAdd(a, b) == Rat(a.num * b.den + b.num * a.den, a.den * b.den)

FSub(a, b) == Rat(a.num * b.den - b.num * a.den, a.den * b.den)

FMul(a, b) == Rat(a.num * b.num, a.den * b.den)

FDiv(a, b) == Rat(a.num * b.den, a.den * b.num)

FGt(a, b) == a.num * b.den > b.num * a.den

FLt(a, b) == a.num * b.den < b.num * a.den

\* f64::atan, kept symbolic: the value atan(num/den)
atan(x) == [tag |-> "atan", num |-> x.num, den |-> x.den]

\* std::f64::consts::PI + v for a symbolic v
PI_plus(v) == [tag |-> "PI+" \o v.tag, num |-> v.num, den |-> v.den]

\* std::f64::consts::PI * x
PI_times(x) == [tag |-> "PI*", num |-> x.num, den |-> x.den]

INVALID_VALUE == F64(-1000000)

(***************************************************************************)
(* ChannelType: the roles this file names.                                 *)
(***************************************************************************)
ChannelType ==
    << "AnodeFront", "AnodeBack", "ScintLeft", "ScintRight", "Cathode",
       "DelayFrontLeft", "DelayFrontRight", "DelayBackLeft", "DelayBackRight",
       "Monitor",
       "Cebra0", "Cebra1", "Cebra2", "Cebra3", "Cebra4",
       "Cebra5", "Cebra6", "Cebra7", "Cebra8" >>

(***************************************************************************)
(* ChannelMap: a map from channel identifier (uuid) to the channel's type. *)
(***************************************************************************)
\* ChannelMap::contains_channel_type
contains_channel_type(map, channel_type) ==
    \E uuid \in DOMAIN map : map[uuid] = channel_type

\* ChannelMap::get_channel_data: <<>> is None, <<channel_type>> is Some(data)
get_channel_data(map, uuid) ==
    IF uuid \in DOMAIN map THEN << map[uuid] >> ELSE << >>

(***************************************************************************)
(* ChannelDataField, in declaration order.                                 *)
(***************************************************************************)
get_field_vec ==
    << "AnodeFrontEnergy", "AnodeFrontShort", "AnodeFrontTime",
       "AnodeBackEnergy", "AnodeBackShort", "AnodeBackTime",
       "ScintLeftEnergy", "ScintLeftShort", "ScintLeftTime",
       "ScintRightEnergy", "ScintRightShort", "ScintRightTime",
       "CathodeEnergy", "CathodeShort", "CathodeTime",
       "DelayFrontLeftEnergy", "DelayFrontLeftShort", "DelayFrontLeftTime",
       "DelayFrontRightEnergy", "DelayFrontRightShort", "DelayFrontRightTime",
       "DelayBackLeftEnergy", "DelayBackLeftShort", "DelayBackLeftTime",
       "DelayBackRightEnergy", "DelayBackRightShort", "DelayBackRightTime",
       "MonitorEnergy", "MonitorShort", "MonitorTime",
       "X1", "X2", "Xavg", "Theta",
       "Cebra0Energy", "Cebra1Energy", "Cebra2Energy", "Cebra3Energy",
       "Cebra4Energy", "Cebra5Energy", "Cebra6Energy", "Cebra7Energy",
       "Cebra8Energy",
       "Cebra0Short", "Cebra1Short", "Cebra2Short", "Cebra3Short",
       "Cebra4Short", "Cebra5Short", "Cebra6Short", "Cebra7Short",
       "Cebra8Short",
       "Cebra0Time", "Cebra1Time", "Cebra2Time", "Cebra3Time",
       "Cebra4Time", "Cebra5Time", "Cebra6Time", "Cebra7Time",
       "Cebra8Time",
       "Cebra0RelTime", "Cebra1RelTime", "Cebra2RelTime", "Cebra3RelTime",
       "Cebra4RelTime", "Cebra5RelTime", "Cebra6RelTime", "Cebra7RelTime",
       "Cebra8RelTime" >>

\* all_delay_lines_present that forgets the back-right delay line
all_delay_lines_present_but_one(map) ==
    /\ contains_channel_type(map, "DelayFrontLeft")
    /\ contains_channel_type(map, "DelayFrontRight")
    /\ contains_channel_type(map, "DelayBackLeft")

\* `let all_delay_lines_present` of get_filtered_field_vec
all_delay_lines_present(map) ==
    /\ contains_channel_type(map, "DelayFrontLeft")
    /\ contains_channel_type(map, "DelayFrontRight")
    /\ contains_channel_type(map, "DelayBackLeft")
    /\ contains_channel_type(map, "DelayBackRight")

\* the closure of the filter in get_filtered_field_vec: one arm per match arm
field_filter(map, field) ==
    CASE field \in {"X1", "X2", "Xavg", "Theta"} -> all_delay_lines_present(map)
         [] field \in {"AnodeFrontEnergy", "AnodeFrontShort", "AnodeFrontTime"} ->
                contains_channel_type(map, "AnodeFront")
         [] field \in {"AnodeBackEnergy", "AnodeBackShort", "AnodeBackTime"} ->
                contains_channel_type(map, "AnodeBack")
         [] field \in {"ScintLeftEnergy", "ScintLeftShort", "ScintLeftTime"} ->
                contains_channel_type(map, "ScintLeft")
         [] field \in {"ScintRightEnergy", "ScintRightShort", "ScintRightTime"} ->
                contains_channel_type(map, "ScintRight")
         [] field \in {"CathodeEnergy", "CathodeShort", "CathodeTime"} ->
                contains_channel_type(map, "Cathode")
         [] field \in {"DelayFrontLeftEnergy", "DelayFrontLeftShort",
                       "DelayFrontLeftTime"} ->
                contains_channel_type(map, "DelayFrontLeft")
         [] field \in {"DelayFrontRightEnergy", "DelayFrontRightShort",
                       "DelayFrontRightTime"} ->
                contains_channel_type(map, "DelayFrontRight")
         [] field \in {"DelayBackLeftEnergy", "DelayBackLeftShort",
                       "DelayBackLeftTime"} ->
                contains_channel_type(map, "DelayBackLeft")
         [] field \in {"DelayBackRightEnergy", "DelayBackRightShort",
                       "DelayBackRightTime"} ->
                contains_channel_type(map, "DelayBackRight")
         [] field \in {"MonitorEnergy", "MonitorShort", "MonitorTime"} ->
                contains_channel_type(map, "Monitor")
         [] field \in {"Cebra0Energy", "Cebra0Short", "Cebra0Time"} ->
                contains_channel_type(map, "Cebra0")
         [] field = "Cebra0RelTime" ->
                /\ contains_channel_type(map, "Cebra0")
                /\ contains_channel_type(map, "ScintLeft")
         [] field \in {"Cebra1Energy", "Cebra1Short", "Cebra1Time"} ->
                contains_channel_type(map, "Cebra1")
         [] field = "Cebra1RelTime" ->
                /\ contains_channel_type(map, "Cebra1")
                /\ contains_channel_type(map, "ScintLeft")
         [] field \in {"Cebra2Energy", "Cebra2Short", "Cebra2Time"} ->
                contains_channel_type(map, "Cebra2")
         [] field = "Cebra2RelTime" ->
                /\ contains_channel_type(map, "Cebra2")
                /\ contains_channel_type(map, "ScintLeft")
         [] field \in {"Cebra3Energy", "Cebra3Short", "Cebra3Time"} ->
                contains_channel_type(map, "Cebra3")
         [] field = "Cebra3RelTime" ->
                /\ contains_channel_type(map, "Cebra3")
                /\ contains_channel_type(map, "ScintLeft")
         [] field \in {"Cebra4Energy", "Cebra4Short", "Cebra4Time"} ->
                contains_channel_type(map, "Cebra4")
         [] field = "Cebra4RelTime" ->
                /\ contains_channel_type(map, "Cebra4")
                /\ contains_channel_type(map, "ScintLeft")
         [] field \in {"Cebra5Energy", "Cebra5Short", "Cebra5Time"} ->
                contains_channel_type(map, "Cebra5")
         [] field = "Cebra5RelTime" ->
                /\ contains_channel_type(map, "Cebra5")
                /\ contains_channel_type(map, "ScintLeft")
         [] field \in {"Cebra6Energy", "Cebra6Short", "Cebra6Time"} ->
                contains_channel_type(map, "Cebra6")
         [] field = "Cebra6RelTime" ->
                /\ contains_channel_type(map, "Cebra6")
                /\ contains_channel_type(map, "ScintLeft")
         [] field \in {"Cebra7Energy", "Cebra7Short", "Cebra7Time"} ->
                contains_channel_type(map, "Cebra7")
         [] field = "Cebra7RelTime" ->
                /\ contains_channel_type(map, "Cebra7")
                /\ contains_channel_type(map, "ScintLeft")
         [] field \in {"Cebra8Energy", "Cebra8Short", "Cebra8Time"} ->
                contains_channel_type(map, "Cebra8")
         [] field = "Cebra8RelTime" ->
                /\ contains_channel_type(map, "Cebra8")
                /\ contains_channel_type(map, "ScintLeft")

\* ChannelDataField::get_filtered_field_vec
get_filtered_field_vec(map) ==
    SelectSeq(get_field_vec, LAMBDA field : field_filter(map, field))

(***************************************************************************)
(* ChannelData: fields is the BTreeMap from field to column, rows the row  *)
(* counter.                                                                *)
(***************************************************************************)
\* ChannelData::new
ChannelData_new(map) ==
    LET field_vec == get_filtered_field_vec(map)
    IN  [fields |-> [f \in {field_vec[i] : i \in DOMAIN field_vec} |-> << >>],
         rows |-> 0]

\* push_defaults with the comparison off by one: no column is ever behind
push_defaults_off_by_one(flds, rws) ==
    [f \in DOMAIN flds |->
        IF Len(flds[f]) < rws - 1 THEN Append(flds[f], INVALID_VALUE) ELSE flds[f]]

\* push_defaults that repeats the column's last value instead of the sentinel
push_defaults_repeat_last(flds, rws) ==
    [f \in DOMAIN flds |->
        IF Len(flds[f]) < rws
        THEN Append(flds[f], IF Len(flds[f]) > 0 THEN flds[f][Len(flds[f])]
                             ELSE INVALID_VALUE)
        ELSE flds[f]]

\* ChannelData::push_defaults
push_defaults(flds, rws) ==
    [f \in DOMAIN flds |->
        IF Len(flds[f]) < rws THEN Append(flds[f], INVALID_VALUE) ELSE flds[f]]

\* set_value that writes the first element of the column, not the last
set_value_first(flds, field, value) ==
    IF field \in DOMAIN flds /\ Len(flds[field]) > 0
    THEN [flds EXCEPT ![field] = [@ EXCEPT ![1] = value]]
    ELSE flds

\* ChannelData::set_value
set_value(flds, field, value) ==
    IF field \in DOMAIN flds /\ Len(flds[field]) > 0
    THEN [flds EXCEPT ![field] = [@ EXCEPT ![Len(@)] = value]]
    ELSE flds

\* the local timestamps of append_event
LocalNames ==
    { "dfl_time", "dfr_time", "dbl_time", "dbr_time", "scint_left_time",
      "cebra0_time", "cebra1_time", "cebra2_time", "cebra3_time",
      "cebra4_time", "cebra5_time", "cebra6_time", "cebra7_time",
      "cebra8_time" }

\* `let mut ..._time = INVALID_VALUE`
InitLocals == [n \in LocalNames |-> INVALID_VALUE]

Arm(e, s, t, l) == [energy |-> e, short |-> s, time |-> t, local |-> l]

\* the arms of `match channel_data.channel_type`: the three fields set and
\* the local that captures the timestamp ("" when the arm captures none)
MatchedTypes ==
    { "ScintLeft", "ScintRight", "Cathode", "DelayFrontRight",
      "DelayFrontLeft", "DelayBackRight", "DelayBackLeft", "AnodeFront",
      "AnodeBack", "Cebra0", "Cebra1", "Cebra2", "Cebra3", "Cebra4",
      "Cebra5", "Cebra6", "Cebra7", "Cebra8" }

MatchArm(channel_type) ==
    CASE channel_type = "ScintLeft" ->
            Arm("ScintLeftEnergy", "ScintLeftShort", "ScintLeftTime", "scint_left_time")
      [] channel_type = "ScintRight" ->
            Arm("ScintRightEnergy", "ScintRightShort", "ScintRightTime", "")
      [] channel_type = "Cathode" ->
            Arm("CathodeEnergy", "CathodeShort", "CathodeTime", "")
      [] channel_type = "DelayFrontRight" ->
            Arm("DelayFrontRightEnergy", "DelayFrontRightShort",
                "DelayFrontRightTime", "dfr_time")
      [] channel_type = "DelayFrontLeft" ->
            Arm("DelayFrontLeftEnergy", "DelayFrontLeftShort",
                "DelayFrontLeftTime", "dfl_time")
      [] channel_type = "DelayBackRight" ->
            Arm("DelayBackRightEnergy", "DelayBackRightShort",
                "DelayBackRightTime", "dbr_time")
      [] channel_type = "DelayBackLeft" ->
            Arm("DelayBackLeftEnergy", "DelayBackLeftShort",
                "DelayBackLeftTime", "dbl_time")
      [] channel_type = "AnodeFront" ->
            Arm("AnodeFrontEnergy", "AnodeFrontShort", "AnodeFrontTime", "")
      [] channel_type = "AnodeBack" ->
            Arm("AnodeBackEnergy", "AnodeBackShort", "AnodeBackTime", "")
      [] channel_type = "Cebra0" ->
            Arm("Cebra0Energy", "Cebra0Short", "Cebra0Time", "cebra0_time")
      [] channel_type = "Cebra1" ->
            Arm("Cebra1Energy", "Cebra1Short", "Cebra1Time", "cebra1_time")
      [] channel_type = "Cebra2" ->
            Arm("Cebra2Energy", "Cebra2Short", "Cebra2Time", "cebra2_time")
      [] channel_type = "Cebra3" ->
            Arm("Cebra3Energy", "Cebra3Short", "Cebra3Time", "cebra3_time")
      [] channel_type = "Cebra4" ->
            Arm("Cebra4Energy", "Cebra4Short", "Cebra4Time", "cebra4_time")
      [] channel_type = "Cebra5" ->
            Arm("Cebra5Energy", "Cebra5Short", "Cebra5Time", "cebra5_time")
      [] channel_type = "Cebra6" ->
            Arm("Cebra6Energy", "Cebra6Short", "Cebra6Time", "cebra6_time")
      [] channel_type = "Cebra7" ->
            Arm("Cebra7Energy", "Cebra7Short", "Cebra7Time", "cebra7_time")
      [] channel_type = "Cebra8" ->
            Arm("Cebra8Energy", "Cebra8Short", "Cebra8Time", "cebra8_time")

\* dispatch_hit that files a hit of an unmapped channel under ScintLeft
\* instead of skipping it
dispatch_hit_no_skip(st, hit, map) ==
    LET channel_data == get_channel_data(map, hit.uuid)
        channel_type == IF channel_data = << >> THEN "ScintLeft" ELSE channel_data[1]
    IN  IF channel_type \notin MatchedTypes THEN st
        ELSE LET arm == MatchArm(channel_type)
                 f1 == set_value(st.fields, arm.energy, hit.energy)
                 f2 == set_value(f1, arm.short, hit.energy_short)
                 f3 == set_value(f2, arm.time, hit.timestamp)
             IN  [fields |-> f3,
                  locals |-> IF arm.local = "" THEN st.locals
                             ELSE [st.locals EXCEPT ![arm.local] = hit.timestamp]]

\* one iteration of `for hit in event.iter()`; st = [fields, locals]
dispatch_hit(st, hit, map) ==
    LET channel_data == get_channel_data(map, hit.uuid)
    IN  IF channel_data = << >> THEN st
        ELSE IF channel_data[1] \notin MatchedTypes THEN st
        ELSE LET arm == MatchArm(channel_data[1])
                 f1 == set_value(st.fields, arm.energy, hit.energy)
                 f2 == set_value(f1, arm.short, hit.energy_short)
                 f3 == set_value(f2, arm.time, hit.timestamp)
             IN  [fields |-> f3,
                  locals |-> IF arm.local = "" THEN st.locals
                             ELSE [st.locals EXCEPT ![arm.local] = hit.timestamp]]

\* the loop `for hit in event.iter()` from hit i on
RECURSIVE dispatch(_, _, _, _)
dispatch(st, evt, i, map) ==
    IF i > Len(evt) THEN st
    ELSE dispatch(dispatch_hit(st, evt[i], map), evt, i + 1, map)

\* x1 and X1 of the //Physics block
physics_x1(flds, l) ==
    IF l["dfr_time"] # INVALID_VALUE /\ l["dfl_time"] # INVALID_VALUE
    THEN LET x1 == FDiv(FMul(FMul(FSub(l["dfl_time"], l["dfr_time"]), Rat(1, 2)),
                             F64(1)), Rat(21, 10))
         IN  [fields |-> set_value(flds, "X1", x1), x |-> x1]
    ELSE [fields |-> flds, x |-> INVALID_VALUE]

\* x2 and X2 of the //Physics block
physics_x2(flds, l) ==
    IF l["dbr_time"] # INVALID_VALUE /\ l["dbl_time"] # INVALID_VALUE
    THEN LET x2 == FDiv(FMul(FMul(FSub(l["dbl_time"], l["dbr_time"]), Rat(1, 2)),
                             F64(1)), Rat(198, 100))
         IN  [fields |-> set_value(flds, "X2", x2), x |-> x2]
    ELSE [fields |-> flds, x |-> INVALID_VALUE]

\* physics_theta with the branches of the sign of diff exchanged
physics_theta_swapped(flds, x1, x2) ==
    LET diff == FSub(x2, x1)
    IN  IF FLt(diff, F64(0))
        THEN set_value(flds, "Theta", atan(FDiv(diff, F64(36))))
        ELSE IF FGt(diff, F64(0))
        THEN set_value(flds, "Theta", PI_plus(atan(FDiv(diff, F64(36)))))
        ELSE set_value(flds, "Theta", PI_times(Rat(1, 2)))

\* Theta of the //Physics block
physics_theta(flds, x1, x2) ==
    LET diff == FSub(x2, x1)
    IN  IF FGt(diff, F64(0))
        THEN set_value(flds, "Theta", atan(FDiv(diff, F64(36))))
        ELSE IF FLt(diff, F64(0))
        THEN set_value(flds, "Theta", PI_plus(atan(FDiv(diff, F64(36)))))
        ELSE set_value(flds, "Theta", PI_times(Rat(1, 2)))

\* physics_xavg with the two weights exchanged
physics_xavg_swapped(flds, x1, x2, wts) ==
    IF wts # << >>
    THEN set_value(flds, "Xavg", FAdd(FMul(wts[2], x1), FMul(wts[1], x2)))
    ELSE set_value(flds, "Xavg", INVALID_VALUE)

\* Xavg of the //Physics block; wts is <<>> (None) or <<w0, w1>>
physics_xavg(flds, x1, x2, wts) ==
    IF wts # << >>
    THEN set_value(flds, "Xavg", FAdd(FMul(wts[1], x1), FMul(wts[2], x2)))
    ELSE set_value(flds, "Xavg", INVALID_VALUE)

\* rel_time that keeps the relative time of the row before when the event
\* gives none
rel_time_carry_over(flds, l, cebra_time, field) ==
    IF l["scint_left_time"] # INVALID_VALUE /\ l[cebra_time] # INVALID_VALUE
    THEN set_value(flds, field, FSub(l[cebra_time], l["scint_left_time"]))
    ELSE IF field \in DOMAIN flds /\ Len(flds[field]) > 1
    THEN set_value(flds, field, flds[field][Len(flds[field]) - 1])
    ELSE flds

\* one `if scint_left_time != INVALID_VALUE && cebraN_time != INVALID_VALUE`
rel_time(flds, l, cebra_time, field) ==
    IF l["scint_left_time"] # INVALID_VALUE /\ l[cebra_time] # INVALID_VALUE
    THEN set_value(flds, field, FSub(l[cebra_time], l["scint_left_time"]))
    ELSE flds

\* the nine relative-time blocks, in order
rel_times(flds, l) ==
    LET r0 == rel_time(flds, l, "cebra0_time", "Cebra0RelTime")
        r1 == rel_time(r0, l, "cebra1_time", "Cebra1RelTime")
        r2 == rel_time(r1, l, "cebra2_time", "Cebra2RelTime")
        r3 == rel_time(r2, l, "cebra3_time", "Cebra3RelTime")
        r4 == rel_time(r3, l, "cebra4_time", "Cebra4RelTime")
        r5 == rel_time(r4, l, "cebra5_time", "Cebra5RelTime")
        r6 == rel_time(r5, l, "cebra6_time", "Cebra6RelTime")
        r7 == rel_time(r6, l, "cebra7_time", "Cebra7RelTime")
    IN  rel_time(r7, l, "cebra8_time", "Cebra8RelTime")

\* ChannelData::append_event
append_event(flds, rws, evt, map, wts) ==
    LET rows1 == rws + 1
        pushed == push_defaults(flds, rows1)
        st == dispatch([fields |-> pushed, locals |-> InitLocals], evt, 1, map)
        p1 == physics_x1(st.fields, st.locals)
        p2 == physics_x2(p1.fields, st.locals)
        ph == IF p1.x # INVALID_VALUE /\ p2.x # INVALID_VALUE
              THEN physics_xavg(physics_theta(p2.fields, p1.x, p2.x), p1.x, p2.x, wts)
              ELSE p2.fields
    IN  [fields |-> rel_times(ph, st.locals), rows |-> rows1]

\* AsRef<str> of ChannelDataField (strum AsRefStr): the name of the variant,
\* which is what identifies a field in this model
as_ref(field) == field

\* iteration of a BTreeMap from the last key to the first
BTreeMap_into_iter_rev(flds) ==
    LET keys == SelectSeq(get_field_vec, LAMBDA field : field \in DOMAIN flds)
    IN  [i \in DOMAIN keys |-> keys[Len(keys) + 1 - i]]

\* BTreeMap::into_iter: the keys in ascending order of the derived Ord, which
\* is the order of declaration of the variants
BTreeMap_into_iter(flds) ==
    SelectSeq(get_field_vec, LAMBDA field : field \in DOMAIN flds)

\* Series::new(name, values)
Series_new(name, values) == [name |-> name, values |-> values]

\* ChannelData::convert_to_series
convert_to_series(flds) ==
    LET keys == BTreeMap_into_iter(flds)
    IN  [i \in DOMAIN keys |-> Series_new(as_ref(keys[i]), flds[keys[i]])]

(***************************************************************************)
(* Inputs: channel maps, hits, events and weights.                         *)
(***************************************************************************)
\* a CompassData hit
Hit(u, e, s, t) ==
    [uuid |-> u, energy |-> F64(e), energy_short |-> F64(s), timestamp |-> F64(t)]

\* channel maps with one channel (uuid 0); uuid 1 is a channel they omit
SingleMaps == { (0 :> ChannelType[i]) : i \in DOMAIN ChannelType }

\* channel maps with the left scintillator and one Cebra detector
CebraMaps == { (0 :> "ScintLeft" @@ 1 :> ChannelType[i]) : i \in 11..19 }

DelayFrontMap ==
    (0 :> "DelayFrontLeft" @@ 1 :> "DelayFrontRight"
       @@ 2 :> "DelayBackLeft" @@ 3 :> "DelayBackRight")

DelayBackMap ==
    (0 :> "DelayBackLeft" @@ 1 :> "DelayBackRight"
       @@ 2 :> "DelayFrontLeft" @@ 3 :> "DelayFrontRight")

\* no channel at all; two channels of one type; front delay lines only
OtherMaps ==
    { << >>,
      (0 :> "Cathode" @@ 1 :> "Cathode"),
      (0 :> "DelayFrontLeft" @@ 1 :> "DelayFrontRight") }

ChannelMaps ==
    SingleMaps \cup CebraMaps \cup {DelayFrontMap, DelayBackMap} \cup OtherMaps

\* the hits of the events: channel 0 with three payloads, one of which
\* carries a timestamp equal to INVALID_VALUE, and channel 1 with one
Hits ==
    { Hit(0, 1, 2, 100), Hit(0, 3, 4, 80), Hit(0, 5, 6, -1000000),
      Hit(1, 7, 8, 80) }

RECURSIVE SeqsUpTo(_, _)
SeqsUpTo(S, n) ==
    IF n = 0 THEN { << >> }
    ELSE LET shorter == SeqsUpTo(S, n - 1)
         IN  shorter \cup { Append(s, x) : s \in shorter, x \in S }

Events == SeqsUpTo(Hits, MaxHits)

\* None or Some((w0, w1))
Weights == { << >>, << F64(1), F64(2) >> }

(***************************************************************************)
(* The builder under a stream of events.  event and weights record the     *)
(* arguments of the append_event call that has returned (pc = "appended")  *)
(* until the caller goes on to its next event.                             *)
(***************************************************************************)
Init ==
    /\ channel_map \in ChannelMaps
    /\ fields = ChannelData_new(channel_map).fields
    /\ rows = ChannelData_new(channel_map).rows
    /\ event = << >>
    /\ weights = << >>
    /\ pc = "ready"
    /\ series = << >>

AppendFrom(evts) ==
    /\ pc = "ready"
    /\ rows < MaxRows
    /\ \E e \in evts, w \in Weights :
          LET r == append_event(fields, rows, e, channel_map, w)
          IN  /\ fields' = r.fields
              /\ rows' = r.rows
              /\ event' = e
              /\ weights' = w
    /\ pc' = "appended"
    /\ UNCHANGED <<channel_map, series>>

AppendEvent == AppendFrom(Events)

\* the caller drops the event and turns to the next one
CallerContinues ==
    /\ pc = "appended"
    /\ pc' = "ready"
    /\ event' = << >>
    /\ weights' = << >>
    /\ UNCHANGED <<channel_map, fields, rows, series>>

\* the caller finalizes the builder; convert_to_series takes self by value,
\* so no call follows it (fields and rows keep what was moved out)
ConvertToSeries ==
    /\ pc = "ready"
    /\ series' = convert_to_series(fields)
    /\ pc' = "converted"
    /\ UNCHANGED <<channel_map, fields, rows, event, weights>>

Next == AppendEvent \/ CallerContinues \/ ConvertToSeries

Spec == Init /\ [][Next]_vars

(***************************************************************************)
(* The builder of a focal-plane run: all four delay lines are mapped       *)
(* (channels 0..3) and an event is a readout in which each channel fires   *)
(* at most once, in channel order.                                         *)
(***************************************************************************)
DelayHits ==
    { Hit(0, 1, 2, 100), Hit(0, 3, 4, 80), Hit(0, 5, 6, -4199920),
      Hit(1, 7, 8, 80),
      Hit(2, 9, 10, 100), Hit(2, 11, 12, 80),
      Hit(3, 13, 14, 80) }

Readout(u) == { << >> } \cup { << h >> : h \in { d \in DelayHits : d.uuid = u } }

DelayEvents ==
    { a \o b \o c \o d :
        a \in Readout(0), b \in Readout(1), c \in Readout(2), d \in Readout(3) }

InitDelay ==
    /\ channel_map = DelayFrontMap
    /\ fields = ChannelData_new(channel_map).fields
    /\ rows = ChannelData_new(channel_map).rows
    /\ event = << >>
    /\ weights = << >>
    /\ pc = "ready"
    /\ series = << >>

AppendDelayEvent == AppendFrom(DelayEvents)

NextDelay == AppendDelayEvent \/ CallerContinues

SpecDelay == InitDelay /\ [][NextDelay]_vars

(***************************************************************************)
(* Schema selection over sets of channel types: the channel map with one   *)
(* channel per type of the set, for every set of at most MaxPresent types  *)
(* and every set that lacks at most MaxAbsent types, and the construction  *)
(* of the builder from it.                                                 *)
(***************************************************************************)
TypeMap(S) == [uuid \in S |-> ChannelType[uuid]]

SchemaMaps ==
    { TypeMap(S) : S \in { T \in SUBSET (DOMAIN ChannelType) :
                              \/ Cardinality(T) <= MaxPresent
                              \/ Cardinality(T) >= Len(ChannelType) - MaxAbsent } }

InitSchema ==
    /\ channel_map \in SchemaMaps
    /\ fields = << >>
    /\ rows = 0
    /\ event = << >>
    /\ weights = << >>
    /\ pc = "new"
    /\ series = << >>

New ==
    /\ pc = "new"
    /\ fields' = ChannelData_new(channel_map).fields
    /\ rows' = ChannelData_new(channel_map).rows
    /\ pc' = "ready"
    /\ UNCHANGED <<channel_map, event, weights, series>>

NextSchema == New

SpecSchema == InitSchema /\ [][NextSchema]_vars

(***************************************************************************)
(* The builder made from one channel map and fed events under another:     *)
(* append_event takes the map as an argument of its own, so the roles it   *)
(* resolves need not be those the columns were selected from.  channel_map *)
(* is the map of the append_event calls.                                   *)
(***************************************************************************)
FrameMaps ==
    { (0 :> "Cathode"),
      (0 :> "ScintLeft" @@ 1 :> "Cebra0"),
      (0 :> "ScintLeft" @@ 1 :> "Cebra1"),
      (0 :> "DelayFrontLeft" @@ 1 :> "DelayFrontRight") }

InitFrame ==
    /\ channel_map \in FrameMaps
    /\ \E built_from \in FrameMaps :
          /\ fields = ChannelData_new(built_from).fields
          /\ rows = ChannelData_new(built_from).rows
    /\ event = << >>
    /\ weights = << >>
    /\ pc = "ready"
    /\ series = << >>

AppendFrameEvent == AppendFrom(Events)

NextFrame == AppendFrameEvent \/ CallerContinues

SpecFrame == InitFrame /\ [][NextFrame]_vars

(***************************************************************************)
(* Properties.                                                             *)
(***************************************************************************)
\* an append_event call has just returned; event and weights are its arguments
Appended == pc = "appended"

\* the step in which append_event runs
AppendStep == pc = "ready" /\ pc' = "appended"

\* the value of column f in the last row
LastOf(f) == fields[f][Len(fields[f])]

\* hit h is resolved by the channel map to channel type t
Resolves(h, t) == h.uuid \in DOMAIN channel_map /\ channel_map[h.uuid] = t

\* the positions of the event's hits that resolve to channel type t
HitsOf(t) == { i \in DOMAIN event : Resolves(event[i], t) }

Aligned == \A f \in DOMAIN fields : Len(fields[f]) = rows

\* C1: every column is as long as the row counter, from construction on,
\* and each append_event call adds one to the row counter and one element
\* to every column, whatever the event and the weights.
ColumnAlignment ==
    /\ Aligned
    /\ [][ /\ Aligned'
           /\ AppendStep =>
                 /\ rows' = rows + 1
                 /\ DOMAIN fields' = DOMAIN fields
                 /\ \A f \in DOMAIN fields : Len(fields'[f]) = Len(fields[f]) + 1
         ]_vars

\* witness of C1: a second row was appended by an empty event, after a row
\* that holds a measured value, and the columns are aligned
ColumnAlignmentWitness ==
    /\ Appended
    /\ rows = 2
    /\ event = << >>
    /\ \E f \in DOMAIN fields :
          /\ Len(fields[f]) = 2
          /\ fields[f][1] # INVALID_VALUE

\* C2: a single hit that resolves to a channel type with an
\* Energy/Short/Time triplet leaves its energy, short energy and timestamp
\* in the last row of that type's three columns, for every such type.
DispatchEveryRole ==
    Appended =>
        \A i \in DOMAIN ChannelType : \A k \in DOMAIN event :
            LET t == ChannelType[i]
            IN  HitsOf(t) = {k} =>
                    /\ LastOf(t \o "Energy") = event[k].energy
                    /\ LastOf(t \o "Short") = event[k].energy_short
                    /\ LastOf(t \o "Time") = event[k].timestamp

\* the hits of the event that the channel map resolves
ResolvedHits(evt) == SelectSeq(evt, LAMBDA h : h.uuid \in DOMAIN channel_map)

\* C3: the table after append_event is the one the same call yields on the
\* event without its unresolved hits, and an event of unresolved hits only
\* yields a row of sentinels.
UnresolvedHitsIgnored ==
    [][ AppendStep =>
          LET kept == ResolvedHits(event')
          IN  /\ fields' = append_event(fields, rows, kept, channel_map, weights').fields
              /\ kept = << >> =>
                    \A f \in DOMAIN fields' :
                        /\ Len(fields'[f]) > 0
                        /\ fields'[f][Len(fields'[f])] = INVALID_VALUE
      ]_vars

\* witness of C3: an event with an unresolved hit after a resolved one,
\* whose values are in the last row
UnresolvedHitsIgnoredWitness ==
    /\ Appended
    /\ Len(event) = 2
    /\ event[1].uuid \in DOMAIN channel_map
    /\ event[2].uuid \notin DOMAIN channel_map
    /\ \E f \in DOMAIN fields :
          /\ Len(fields[f]) > 0
          /\ LastOf(f) = event[1].energy
          /\ LastOf(f) # INVALID_VALUE

\* C4: an event with no hits yields a row of sentinels in every column,
\* whatever the earlier rows and the weights.
EmptyEventSentinelRow ==
    (Appended /\ event = << >>) =>
        \A f \in DOMAIN fields :
            /\ Len(fields[f]) > 0
            /\ LastOf(f) = INVALID_VALUE

\* witness of C4: an empty event with weights was appended after a row that
\* holds a measured value in a raw and in a derived column
EmptyEventSentinelRowWitness ==
    /\ Appended
    /\ event = << >>
    /\ weights # << >>
    /\ rows = 2
    /\ "Cebra4RelTime" \in DOMAIN fields
    /\ fields["Cebra4RelTime"][1] # INVALID_VALUE
    /\ fields["Cebra4Energy"][1] # INVALID_VALUE
    /\ \A f \in DOMAIN fields : LastOf(f) = INVALID_VALUE

\* the channel types the channel map contains
PresentTypes == { channel_map[u] : u \in DOMAIN channel_map }

CebraTypes == { ChannelType[n] : n \in 11..19 }

\* the channel types a field is made from
BackingTypes(f) ==
    IF f \in {"X1", "X2", "Xavg", "Theta"}
    THEN {"DelayFrontLeft", "DelayFrontRight", "DelayBackLeft", "DelayBackRight"}
    ELSE IF \E c \in CebraTypes : f = c \o "RelTime"
    THEN { c \in CebraTypes : f = c \o "RelTime" } \cup {"ScintLeft"}
    ELSE { ChannelType[i] : i \in { j \in DOMAIN ChannelType :
                f \in { ChannelType[j] \o "Energy", ChannelType[j] \o "Short",
                        ChannelType[j] \o "Time" } } }

\* BackingTypes of the field at each position of the declaration order
BackingAt == [j \in DOMAIN get_field_vec |-> BackingTypes(get_field_vec[j])]

FieldSet == { get_field_vec[j] : j \in DOMAIN get_field_vec }

\* the position of each field in the declaration order
PositionOf == [f \in FieldSet |-> CHOOSE i \in DOMAIN get_field_vec : get_field_vec[i] = f]

\* C5: get_filtered_field_vec(C) lists, in declaration order and without
\* duplicates, exactly the fields of get_field_vec whose backing channel
\* types are all in C: the type of a triplet, the four delay lines for
\* X1, X2, Xavg and Theta, CebraN and ScintLeft for CebraNRelTime; the
\* builder made from C has these columns.
SchemaSelection ==
    LET v == get_filtered_field_vec(channel_map)
        selected == { v[i] : i \in DOMAIN v }
        present == PresentTypes
    IN  /\ selected \subseteq FieldSet
        /\ \A i \in 1..(Len(v) - 1) : PositionOf[v[i]] < PositionOf[v[i + 1]]
        /\ \A j \in DOMAIN get_field_vec :
              /\ BackingAt[j] # {}
              /\ (get_field_vec[j] \in selected) <=> (BackingAt[j] \subseteq present)
        /\ pc = "ready" => DOMAIN fields = selected

\* witness of C5: a builder made from a map with every type but ScintLeft
\* and Monitor: the delay-line fields are selected, no RelTime field is
SchemaSelectionWitness ==
    /\ pc = "ready"
    /\ PresentTypes = { ChannelType[i] : i \in DOMAIN ChannelType } \ {"ScintLeft", "Monitor"}
    /\ {"X1", "X2", "Xavg", "Theta", "Cebra3Energy", "Cebra3Time"} \subseteq DOMAIN fields
    /\ DOMAIN fields \cap {"Cebra3RelTime", "MonitorTime", "ScintLeftTime"} = {}

\* the last hit of the event that resolves to channel type t
LastHit(t) == event[CHOOSE i \in HitsOf(t) : \A j \in HitsOf(t) : j <= i]

\* (left - right) * 0.5 / 2.1 and (left - right) * 0.5 / 1.98
X1Of(left, right) == FDiv(FMul(FSub(left, right), Rat(1, 2)), Rat(21, 10))

X2Of(left, right) == FDiv(FMul(FSub(left, right), Rat(1, 2)), Rat(198, 100))

\* C6: with the four delay lines mapped, X1 of the last row is
\* (frontLeftTime - frontRightTime) * 0.5 / 2.1 when the event has a
\* resolved hit of both front delay lines and the sentinel otherwise, and
\* X2 likewise from the back delay lines with 1.98, whatever timestamps
\* the hits carry.
PositionPresence ==
    (Appended /\ "X1" \in DOMAIN fields) =>
        /\ IF HitsOf("DelayFrontLeft") # {} /\ HitsOf("DelayFrontRight") # {}
           THEN LastOf("X1") = X1Of(LastHit("DelayFrontLeft").timestamp,
                                    LastHit("DelayFrontRight").timestamp)
           ELSE LastOf("X1") = INVALID_VALUE
        /\ IF HitsOf("DelayBackLeft") # {} /\ HitsOf("DelayBackRight") # {}
           THEN LastOf("X2") = X2Of(LastHit("DelayBackLeft").timestamp,
                                    LastHit("DelayBackRight").timestamp)
           ELSE LastOf("X2") = INVALID_VALUE

\* C7: when X1 and X2 of the last row were computed (are not the
\* sentinel), Theta of that row is atan(d / 36) for d = X2 - X1 > 0,
\* PI + atan(d / 36) for d < 0 and PI * 0.5 for d = 0; otherwise Theta is
\* the sentinel.
ThetaBranching ==
    Appended =>
        IF LastOf("X1") # INVALID_VALUE /\ LastOf("X2") # INVALID_VALUE
        THEN LET d == FSub(LastOf("X2"), LastOf("X1"))
             IN  /\ d.num > 0 => LastOf("Theta") = atan(FDiv(d, F64(36)))
                 /\ d.num < 0 => LastOf("Theta") = PI_plus(atan(FDiv(d, F64(36))))
                 /\ d.num = 0 => LastOf("Theta") = PI_times(Rat(1, 2))
        ELSE LastOf("Theta") = INVALID_VALUE

\* witness of C7: a row with X1 = X2 and Theta = PI * 0.5, then a row with
\* X2 < X1 and Theta = PI + atan(d / 36)
ThetaBranchingWitness ==
    /\ Appended
    /\ rows = 2
    /\ fields["X1"][1] = fields["X2"][1]
    /\ fields["X1"][1] # INVALID_VALUE
    /\ fields["Theta"][1] = PI_times(Rat(1, 2))
    /\ LastOf("X1") # INVALID_VALUE
    /\ LastOf("X2") # INVALID_VALUE
    /\ FLt(LastOf("X2"), LastOf("X1"))
    /\ LastOf("Theta").tag = "PI+atan"

\* C8: when X1 and X2 of the last row are available (are not the
\* sentinel), Xavg of that row is w0 * X1 + w1 * X2 if the call had weights
\* (w0, w1) and the sentinel if it had none; otherwise Xavg is the sentinel.
\* Xavg of the row is never that of an earlier row.
XavgMasking ==
    Appended =>
        IF LastOf("X1") # INVALID_VALUE /\ LastOf("X2") # INVALID_VALUE
        THEN IF weights # << >>
             THEN LastOf("Xavg") = FAdd(FMul(weights[1], LastOf("X1")),
                                        FMul(weights[2], LastOf("X2")))
             ELSE LastOf("Xavg") = INVALID_VALUE
        ELSE LastOf("Xavg") = INVALID_VALUE

\* witness of C8: a row with Xavg computed from weights, then a row with
\* X1 and X2 available, no weights and Xavg the sentinel
XavgMaskingWitness ==
    /\ Appended
    /\ rows = 2
    /\ fields["Xavg"][1] # INVALID_VALUE
    /\ weights = << >>
    /\ LastOf("X1") # INVALID_VALUE
    /\ LastOf("X2") # INVALID_VALUE
    /\ LastOf("Xavg") = INVALID_VALUE

\* C9: with CebraN and ScintLeft mapped, CebraNRelTime of the last row is
\* (CebraN timestamp - ScintLeft timestamp) when the event has a resolved
\* hit of CebraN and one of ScintLeft, in either order, and the sentinel
\* otherwise.
RelativeTime ==
    Appended =>
        \A c \in CebraTypes :
            (c \o "RelTime") \in DOMAIN fields =>
                IF HitsOf(c) # {} /\ HitsOf("ScintLeft") # {}
                THEN LastOf(c \o "RelTime") =
                        FSub(LastHit(c).timestamp, LastHit("ScintLeft").timestamp)
                ELSE LastOf(c \o "RelTime") = INVALID_VALUE

\* C10: when several hits of the event resolve to one channel type, the
\* last row holds the energy, short energy and timestamp of the last of
\* them, and X1, X2 and CebraNRelTime of that row are computed from the
\* timestamps in the Time columns of the row.
LastHitWins ==
    Appended =>
        /\ \A i \in DOMAIN ChannelType :
              LET t == ChannelType[i]
              IN  Cardinality(HitsOf(t)) >= 2 =>
                      /\ LastOf(t \o "Energy") = LastHit(t).energy
                      /\ LastOf(t \o "Short") = LastHit(t).energy_short
                      /\ LastOf(t \o "Time") = LastHit(t).timestamp
        /\ ("X1" \in DOMAIN fields /\ HitsOf("DelayFrontLeft") # {}
                /\ HitsOf("DelayFrontRight") # {}) =>
              LastOf("X1") = X1Of(LastOf("DelayFrontLeftTime"),
                                  LastOf("DelayFrontRightTime"))
        /\ ("X2" \in DOMAIN fields /\ HitsOf("DelayBackLeft") # {}
                /\ HitsOf("DelayBackRight") # {}) =>
              LastOf("X2") = X2Of(LastOf("DelayBackLeftTime"),
                                  LastOf("DelayBackRightTime"))
        /\ \A c \in CebraTypes :
              ((c \o "RelTime") \in DOMAIN fields /\ HitsOf(c) # {}
                  /\ HitsOf("ScintLeft") # {}) =>
                LastOf(c \o "RelTime") =
                    FSub(LastOf(c \o "Time"), LastOf("ScintLeftTime"))

\* the builder exists: it was constructed, and possibly finalized
Constructed == pc \in {"ready", "appended", "converted"}

\* C11: the columns of the builder are, from construction to finalization,
\* those of get_filtered_field_vec of its configuration, and
\* convert_to_series yields one (name, column) pair per field of that
\* schema, in declaration order, named by the field's identifier, holding
\* the field's column, of length equal to the final row count.
Finalization ==
    LET v == get_filtered_field_vec(channel_map)
    IN  /\ Constructed => DOMAIN fields = { v[i] : i \in DOMAIN v }
        /\ pc = "converted" =>
              /\ Len(series) = Len(v)
              /\ \A i \in DOMAIN v :
                    /\ series[i].name = v[i]
                    /\ series[i].values = fields[v[i]]
                    /\ Len(series[i].values) = rows
              /\ \A i \in 1..(Len(series) - 1) :
                    PositionOf[series[i].name] < PositionOf[series[i + 1].name]

\* witness of C11: a builder of the four delay lines finalized after two
\* events, the first with measured values: sixteen series, the raw columns
\* before the derived ones
FinalizationWitness ==
    /\ pc = "converted"
    /\ channel_map = DelayFrontMap
    /\ rows = 2
    /\ Len(series) = 16
    /\ series[1].name = "DelayFrontLeftEnergy"
    /\ series[1].values[1] # INVALID_VALUE
    /\ series[13].name = "X1"
    /\ series[16].name = "Theta"

\* the builder ChannelData::new makes from each channel map
FreshBuilder == [map \in ChannelMaps |-> ChannelData_new(map)]

\* the table a builder made anew from the configuration holds after one
\* append_event call with the given event and weights
AloneRow(evt, wts) ==
    LET fresh == FreshBuilder[channel_map]
    IN  append_event(fresh.fields, fresh.rows, evt, channel_map, wts).fields

\* C12: every column after an append_event call is the column before the
\* call followed by the column that a second, fresh builder of the same
\* configuration holds after the same call: the appended row depends on the
\* event, the configuration and the weights only, so that the table of
\* e1..en is the field-by-field concatenation of the tables of e1..ek and
\* e(k+1)..en.
PartitionMerge ==
    [][ AppendStep =>
          LET alone == AloneRow(event', weights')
          IN  /\ DOMAIN alone = DOMAIN fields'
              /\ \A f \in DOMAIN fields' : fields'[f] = fields[f] \o alone[f]
      ]_vars

\* witness of C12: the first event gave a relative time, the second has a
\* hit and gives none; the second row is that of the second event alone
PartitionMergeWitness ==
    /\ Appended
    /\ rows = 2
    /\ event # << >>
    /\ "Cebra0RelTime" \in DOMAIN fields
    /\ fields["Cebra0RelTime"][1] # INVALID_VALUE
    /\ fields["Cebra0Time"][2] # INVALID_VALUE
    /\ fields["Cebra0RelTime"][2] = INVALID_VALUE
    /\ \A f \in DOMAIN fields : << fields[f][2] >> = AloneRow(event, weights)[f]

\* C13: an append_event call leaves every element that a column held
\* before the call as it was and adds one element at the end of the column,
\* also when the map of the call resolves hits to channel types whose
\* columns the builder does not have.
AppendOnly ==
    [][ AppendStep =>
          /\ DOMAIN fields' = DOMAIN fields
          /\ \A f \in DOMAIN fields :
                /\ Len(fields'[f]) = Len(fields[f]) + 1
                /\ \A i \in 1..Len(fields[f]) : fields'[f][i] = fields[f][i]
      ]_vars

\* witness of C13: the second event has a hit that writes its columns and
\* a hit of a channel type whose columns the builder does not have; the
\* first row holds measured values that differ from those of the second
AppendOnlyWitness ==
    /\ Appended
    /\ rows = 2
    /\ \E i, j \in DOMAIN event :
          /\ event[i].uuid \in DOMAIN channel_map
          /\ (channel_map[event[i].uuid] \o "Energy") \in DOMAIN fields
          /\ fields[channel_map[event[i].uuid] \o "Energy"][2] = event[i].energy
          /\ fields[channel_map[event[i].uuid] \o "Energy"][1] # INVALID_VALUE
          /\ fields[channel_map[event[i].uuid] \o "Energy"][1] # event[i].energy
          /\ event[j].uuid \in DOMAIN channel_map
          /\ (channel_map[event[j].uuid] \o "Energy") \notin DOMAIN fields

====
